---- MODULE Spec2Model ----
(***************************************************************************)
(* Model of zhuanhuan_optimized.py: XMLtoYOLOConverter, which converts a   *)
(* directory of XML bounding-box annotations into YOLO text files.         *)
(*                                                                         *)
(* An annotation file is modelled by what ElementTree hands to the code:   *)
(* whether it parses, its <size> record, and the <object> records that     *)
(* root.iter('object') yields, in document order.  A child element read    *)
(* through elem.find(tag).text is a Field: "missing" (find returns None),  *)
(* "empty" (element without text, .text is None), "bad" (text that int()   *)
(* or float() rejects) or "num".                                           *)
(* File names are sequences of characters, so that the glob pattern and    *)
(* the [:-4] slice are modelled by what they do.                           *)
(***************************************************************************)
EXTENDS Integers, Sequences, FiniteSets, TLC

VARIABLES
    classes,        \* self.classes
    input_dir,      \* content of self.input_dir: entry name -> document
    output_dir,     \* content of self.output_dir: entry name -> text file
    xml_files,      \* convert_all: the list glob returned
    idx,            \* convert_all: position of the for loop in xml_files
    total_files,    \* convert_all: total_files
    success_count,  \* convert_all: success_count
    result,         \* the value convert_all returned
    pc,             \* control position
    width,          \* convert_annotation: width
    height,         \* convert_annotation: height
    k,              \* convert_annotation: position of the object loop
    returns,        \* history: <<file, value>> of every convert_annotation return
    out0,           \* history: output_dir as it was before the run
    evaluated,      \* history: image sizes convert_coordinates was called with
    cc_in,          \* arguments of a stand-alone convert_coordinates call
    cc_out          \* its result

vars == <<classes, input_dir, output_dir, xml_files, idx, total_files,
          success_count, result, pc, width, height, k, returns, out0,
          evaluated, cc_in, cc_out>>

(***************************************************************************)
(* Bounds                                                                  *)
(***************************************************************************)
MaxFiles == 2       \* matching annotation files in a directory
MaxObjects == 3     \* object records in one annotation file
MaxDim == 3         \* image sizes and corner values of the stand-alone transform

(***************************************************************************)
(* Fields, objects, documents                                              *)
(***************************************************************************)
Missing == [kind |-> "missing", v |-> 0]
Empty == [kind |-> "empty", v |-> 0]
Bad == [kind |-> "bad", v |-> 0]
Num(n) == [kind |-> "num", v |-> n]

NoName == [kind |-> "missing", v |-> ""]
Name(s) == [kind |-> "text", v |-> s]

NoBox == [present |-> FALSE, xmin |-> Missing, xmax |-> Missing,
          ymin |-> Missing, ymax |-> Missing]
Box(a, b, c, d) == [present |-> TRUE, xmin |-> a, xmax |-> b, ymin |-> c, ymax |-> d]

Obj(d, n, b) == [difficult |-> d, name |-> n, bndbox |-> b]

NoSize == [present |-> FALSE, width |-> Missing, height |-> Missing]
Size(w, h) == [present |-> TRUE, width |-> w, height |-> h]

Doc(s, os) == [present |-> TRUE, wf |-> TRUE, size |-> s, objects |-> os]
Malformed == [present |-> TRUE, wf |-> FALSE, size |-> NoSize, objects |-> <<>>]
NoFile == [present |-> FALSE, wf |-> FALSE, size |-> NoSize, objects |-> <<>>]

NoOut == [exists |-> FALSE, lines |-> <<>>]
Text(ls) == [exists |-> TRUE, lines |-> ls]
Stale == Text(<< <<9, 0, 0, 0, 0>> >>)

\* the head of the default class list of main()
Classes == <<"battery", "drug", "plastic">>

(***************************************************************************)
(* File names                                                              *)
(***************************************************************************)
XmlExt == <<".", "x", "m", "l">>
TxtExt == <<".", "t", "x", "t">>
Stems == <<"a", "b", "c", "d", "e">>
XmlNames == {<<Stems[i]>> \o XmlExt : i \in 1..MaxFiles}
OtherName == <<"n">> \o TxtExt
EntryNames == XmlNames \cup {OtherName}

\* a pattern that also matches the other entries of the directory
MatchesAny(name) == Len(name) > 0

\* glob pattern '*.xml'
Matches(name) ==
    /\ Len(name) > Len(XmlExt)
    /\ SubSeq(name, Len(name) - Len(XmlExt) + 1, Len(name)) = XmlExt

\* an output name that does not depend on the input file
OutputNameShared(xml_file) == <<Stems[1]>> \o TxtExt

\* os.path.basename(xml_file)[:-4] and f"{file_name}.txt"
OutputName(xml_file) == SubSeq(xml_file, 1, Len(xml_file) - 4) \o TxtExt

OutNames == {OutputName(n) : n \in EntryNames}

Perms(S) ==
    {s \in [1..Cardinality(S) -> S] : \A i, j \in 1..Cardinality(S) : s[i] = s[j] => i = j}

(***************************************************************************)
(* convert_coordinates                                                     *)
(***************************************************************************)
\* 1.0 / image_size[0] and 1.0 / image_size[1] raise ZeroDivisionError on 0
CoordRaises(image_size) == image_size[1] = 0 \/ image_size[2] = 0

\* the width normalised by dh and the height by dw
convert_coordinates_swapped(image_size, box) ==
    << <<box[1] + box[2], 2 * image_size[1]>>,
       <<box[3] + box[4], 2 * image_size[2]>>,
       <<box[2] - box[1], image_size[2]>>,
       <<box[4] - box[3], image_size[1]>> >>

\* the four results as exact fractions <<numerator, denominator>>;
\* box is (xmin, xmax, ymin, ymax).  For the image sizes of Sizes and
\* BatchDocs, powers of two, the code's double arithmetic is exact as well.
convert_coordinates(image_size, box) ==
    << <<box[1] + box[2], 2 * image_size[1]>>,
       <<box[3] + box[4], 2 * image_size[2]>>,
       <<box[2] - box[1], image_size[1]>>,
       <<box[4] - box[3], image_size[2]>> >>

Abs(n) == IF n < 0 THEN -n ELSE n

\* f'{a:.6f}': the value in millionths, rounded to nearest, ties to even
Fmt6(f) ==
    LET N == Abs(f[1]) * 1000000
        D == Abs(f[2])
        q == N \div D
        r == N % D
        m == IF 2 * r > D THEN q + 1
             ELSE IF 2 * r = D THEN q + (q % 2)
             ELSE q
    IN  IF (f[1] < 0) # (f[2] < 0) THEN -m ELSE m

\* f"{cls_id} {' '.join([f'{a:.6f}' for a in bb])}\n"
FormatLine(cls_id, bb) == <<cls_id, Fmt6(bb[1]), Fmt6(bb[2]), Fmt6(bb[3]), Fmt6(bb[4])>>

(***************************************************************************)
(* One iteration of the object loop of convert_annotation                  *)
(***************************************************************************)
\* int(e.text) / float(e.text) for e = parent.find(tag)
ParseError(f) ==
    CASE f.kind = "missing" -> "AttributeError"
      [] f.kind = "empty" -> "TypeError"
      [] f.kind = "bad" -> "ValueError"
      [] OTHER -> "none"

\* difficult is not None and int(difficult.text) == 1
DifficultError(obj) ==
    IF obj.difficult.kind = "missing" THEN "none" ELSE ParseError(obj.difficult)

IsDifficult(obj) == obj.difficult.kind = "num" /\ obj.difficult.v = 1

\* cls not in self.classes
InClasses(cls, cl) == \E i \in 1..Len(cl) : cl[i] = cls

\* the position of cls counted from 1
ClassIndexFromOne(cls, cl) == CHOOSE i \in 1..Len(cl) : cl[i] = cls /\ \A j \in 1..(i - 1) : cl[j] # cls

\* self.classes.index(cls), counted from 0
ClassIndex(cls, cl) == (CHOOSE i \in 1..Len(cl) : cl[i] = cls /\ \A j \in 1..(i - 1) : cl[j] # cls) - 1

\* the error of the first corner, in the order xmin, xmax, ymin, ymax, that fails
CornerError(b) ==
    LET cs == <<b.xmin, b.xmax, b.ymin, b.ymax>>
        bad == {i \in 1..4 : cs[i].kind # "num"}
    IN  IF bad = {} THEN "none"
        ELSE ParseError(cs[CHOOSE i \in bad : \A j \in bad : i <= j])

\* except (AttributeError, ValueError)
CaughtInner(e) == e \in {"AttributeError", "ValueError"}

Skip == [act |-> "skip", line |-> <<>>, eval |-> FALSE]
Raise == [act |-> "raise", line |-> <<>>, eval |-> FALSE]

\* the object's line, once the object has passed every check
Emit(obj, w, h, cl) ==
    IF CoordRaises(<<w, h>>) THEN [Raise EXCEPT !.eval = TRUE]
    ELSE [act |-> "emit",
          line |-> FormatLine(ClassIndex(obj.name.v, cl),
                              convert_coordinates(<<w, h>>,
                                  <<obj.bndbox.xmin.v, obj.bndbox.xmax.v,
                                    obj.bndbox.ymin.v, obj.bndbox.ymax.v>>)),
          eval |-> TRUE]

\* the loop without the membership test: index() raises ValueError on an unknown class
ObjectResultUnknownRaises(obj, w, h, cl) ==
    IF DifficultError(obj) # "none" THEN Raise
    ELSE IF IsDifficult(obj) THEN Skip
    ELSE IF obj.name.kind = "missing" THEN Raise
    ELSE IF ~InClasses(obj.name.v, cl) THEN Raise
    ELSE IF ~obj.bndbox.present THEN Skip
    ELSE IF CornerError(obj.bndbox) # "none"
         THEN IF CaughtInner(CornerError(obj.bndbox)) THEN Skip ELSE Raise
    ELSE Emit(obj, w, h, cl)

\* the loop without the test of the difficulty flag
ObjectResultKeepDifficult(obj, w, h, cl) ==
    IF DifficultError(obj) # "none" THEN Raise
    ELSE IF obj.name.kind = "missing" THEN Raise
    ELSE IF ~InClasses(obj.name.v, cl) THEN Skip
    ELSE IF ~obj.bndbox.present THEN Skip
    ELSE IF CornerError(obj.bndbox) # "none"
         THEN IF CaughtInner(CornerError(obj.bndbox)) THEN Skip ELSE Raise
    ELSE Emit(obj, w, h, cl)

\* lines 98-132 for one object: skip it, raise out of the loop, or write a line
ObjectResult(obj, w, h, cl) ==
    IF DifficultError(obj) # "none" THEN Raise
    ELSE IF IsDifficult(obj) THEN Skip
    ELSE IF obj.name.kind = "missing" THEN Raise
    ELSE IF ~InClasses(obj.name.v, cl) THEN Skip
    ELSE IF ~obj.bndbox.present THEN Skip
    ELSE IF CornerError(obj.bndbox) # "none"
         THEN IF CaughtInner(CornerError(obj.bndbox)) THEN Skip ELSE Raise
    ELSE Emit(obj, w, h, cl)

\* convert_annotation as a function of the document and of the output file
\* found before the call: the value returned and the output file left behind
RECURSIVE RunObjects(_, _, _, _)
RunObjects(objs, w, h, cl) ==
    IF objs = <<>> THEN [ok |-> TRUE, lines |-> <<>>]
    ELSE LET r == ObjectResult(Head(objs), w, h, cl)
         IN  IF r.act = "raise" THEN [ok |-> FALSE, lines |-> <<>>]
             ELSE LET rest == RunObjects(Tail(objs), w, h, cl)
                  IN  [ok |-> rest.ok,
                       lines |-> (IF r.act = "emit" THEN <<r.line>> ELSE <<>>) \o rest.lines]

convert_annotation(d, prev, cl) ==
    IF ~d.wf THEN [ok |-> FALSE, out |-> prev]
    ELSE IF \/ ~d.size.present
            \/ ParseError(d.size.width) # "none"
            \/ ParseError(d.size.height) # "none"
         THEN [ok |-> FALSE, out |-> Text(<<>>)]
    ELSE LET r == RunObjects(d.objects, d.size.width.v, d.size.height.v, cl)
         IN  [ok |-> r.ok, out |-> Text(r.lines)]

(***************************************************************************)
(* Inputs                                                                  *)
(***************************************************************************)
GoodBox == Box(Num(0), Num(2), Num(1), Num(2))
WideBox == Box(Num(1), Num(2), Num(0), Num(2))

Objects ==
    { Obj(Missing, Name("battery"), GoodBox),
      Obj(Num(0), Name("drug"), WideBox),
      Obj(Num(1), Name("drug"), GoodBox),
      Obj(Num(1), NoName, NoBox),
      Obj(Missing, Name("glass"), GoodBox),
      Obj(Bad, Name("glass"), GoodBox),
      Obj(Num(0), Name("battery"), NoBox),
      Obj(Missing, Name("drug"), Box(Missing, Empty, Num(1), Num(2))),
      Obj(Missing, Name("battery"), Box(Num(0), Num(2), Num(1), Bad)),
      Obj(Missing, Name("battery"), Box(Num(0), Empty, Num(1), Num(2))),
      Obj(Missing, NoName, GoodBox) }

Sizes ==
    { NoSize,
      Size(Missing, Num(2)),
      Size(Num(2), Bad),
      Size(Num(0), Num(2)),
      Size(Num(2), Num(0)),
      Size(Num(2), Num(4)) }

SeqsUpTo(S, n) == UNION {[1..m -> S] : m \in 0..n}

\* the documents of a single-file run
Docs == {Malformed} \cup {Doc(s, os) : s \in Sizes, os \in SeqsUpTo(Objects, MaxObjects)}

\* the documents of a batch run
BatchDocs ==
    { Malformed,
      Doc(NoSize, << Obj(Missing, Name("battery"), GoodBox) >>),
      Doc(Size(Num(0), Num(2)), <<>>),
      Doc(Size(Num(2), Num(4)), <<>>),
      Doc(Size(Num(2), Num(4)),
          << Obj(Missing, Name("battery"), GoodBox), Obj(Num(0), Name("drug"), WideBox) >>),
      Doc(Size(Num(4), Num(2)),
          << Obj(Missing, Name("drug"), GoodBox), Obj(Bad, Name("battery"), GoodBox) >>) }

(***************************************************************************)
(* State machine                                                           *)
(***************************************************************************)
NoResult == [returned |-> FALSE, success |-> 0, total |-> 0]

InitLocals ==
    /\ classes = Classes
    /\ xml_files = <<>>
    /\ idx = 1
    /\ total_files = 0
    /\ success_count = 0
    /\ result = NoResult
    /\ width = 0
    /\ height = 0
    /\ k = 1
    /\ returns = <<>>
    /\ evaluated = {}
    /\ out0 = output_dir

NoCoord ==
    /\ cc_in = <<<<0, 0>>, <<0, 0, 0, 0>>>>
    /\ cc_out = [done |-> FALSE, raised |-> FALSE, bb |-> <<>>]

\* a directory of up to MaxFiles annotation files, an output directory that
\* may hold files of an earlier run
Init ==
    /\ pc = "start"
    /\ input_dir \in [EntryNames -> BatchDocs \cup {NoFile}]
    /\ input_dir[OtherName] \in {NoFile, Malformed}
    /\ output_dir \in [OutNames -> {NoOut, Stale}]
    /\ output_dir[OutputName(OtherName)] = NoOut
    /\ InitLocals
    /\ NoCoord

\* a directory of at most one annotation file, of any content
InitFile ==
    /\ pc = "start"
    /\ \E d \in Docs \cup {NoFile} :
           input_dir = [n \in EntryNames |-> IF n = <<Stems[1]>> \o XmlExt THEN d ELSE NoFile]
    /\ \E o \in {NoOut, Stale} :
           output_dir = [n \in OutNames |-> IF n = <<Stems[1]>> \o TxtExt THEN o ELSE NoOut]
    /\ InitLocals
    /\ NoCoord

cur == xml_files[idx]
doc == input_dir[cur]

\* convert_annotation returns v to the loop of convert_all (lines 160-161)
Return(v) ==
    /\ returns' = Append(returns, <<cur, v>>)
    /\ success_count' = IF v THEN success_count + 1 ELSE success_count
    /\ idx' = idx + 1
    /\ pc' = "loop"

\* convert_all, lines 147-158
ConvertAll ==
    /\ pc = "start"
    /\ \E fs \in Perms({n \in EntryNames : input_dir[n].present /\ Matches(n)}) :
           /\ xml_files' = fs
           /\ total_files' = Len(fs)
           /\ IF Len(fs) = 0
              THEN /\ result' = [returned |-> TRUE, success |-> 0, total |-> 0]
                   /\ pc' = "done"
              ELSE /\ result' = result
                   /\ pc' = "loop"
    /\ UNCHANGED <<classes, input_dir, output_dir, idx, success_count, width, height, k,
                   returns, out0, evaluated, cc_in, cc_out>>

\* convert_annotation, lines 78-87: parse the file, open the output file
ParseXml ==
    /\ pc = "loop"
    /\ idx <= Len(xml_files)
    /\ IF ~doc.wf
       THEN /\ Return(FALSE)
            /\ UNCHANGED output_dir
       ELSE /\ output_dir' = [output_dir EXCEPT ![OutputName(cur)] = Text(<<>>)]
            /\ pc' = "size"
            /\ UNCHANGED <<returns, success_count, idx>>
    /\ UNCHANGED <<classes, input_dir, xml_files, total_files, result, width, height, k,
                   out0, evaluated, cc_in, cc_out>>

\* a missing size record ends the whole batch
ReadSizeAbort ==
    /\ pc = "size"
    /\ IF \/ ~doc.size.present
          \/ ParseError(doc.size.width) # "none"
          \/ ParseError(doc.size.height) # "none"
       THEN /\ returns' = Append(returns, <<cur, FALSE>>)
            /\ result' = [returned |-> TRUE, success |-> success_count, total |-> total_files]
            /\ pc' = "done"
            /\ UNCHANGED <<width, height, k, success_count, idx>>
       ELSE /\ width' = doc.size.width.v
            /\ height' = doc.size.height.v
            /\ k' = 1
            /\ pc' = "objects"
            /\ UNCHANGED <<returns, success_count, idx, result>>
    /\ UNCHANGED <<classes, input_dir, output_dir, xml_files, total_files,
                   out0, evaluated, cc_in, cc_out>>

\* convert_annotation, lines 89-95
ReadSize ==
    /\ pc = "size"
    /\ IF \/ ~doc.size.present
          \/ ParseError(doc.size.width) # "none"
          \/ ParseError(doc.size.height) # "none"
       THEN /\ Return(FALSE)
            /\ UNCHANGED <<width, height, k>>
       ELSE /\ width' = doc.size.width.v
            /\ height' = doc.size.height.v
            /\ k' = 1
            /\ pc' = "objects"
            /\ UNCHANGED <<returns, success_count, idx>>
    /\ UNCHANGED <<classes, input_dir, output_dir, xml_files, total_files, result,
                   out0, evaluated, cc_in, cc_out>>

\* convert_annotation, lines 98-132: one iteration of the object loop
ProcessObject ==
    /\ pc = "objects"
    /\ k <= Len(doc.objects)
    /\ LET r == ObjectResult(doc.objects[k], width, height, classes)
       IN  /\ evaluated' = IF r.eval THEN evaluated \cup {<<width, height>>} ELSE evaluated
           /\ output_dir' = IF r.act = "emit"
                            THEN [output_dir EXCEPT ![OutputName(cur)].lines = Append(@, r.line)]
                            ELSE output_dir
           /\ IF r.act = "raise"
              THEN /\ Return(FALSE)
                   /\ UNCHANGED k
              ELSE /\ k' = k + 1
                   /\ UNCHANGED <<returns, success_count, idx, pc>>
    /\ UNCHANGED <<classes, input_dir, xml_files, total_files, result, width, height,
                   out0, cc_in, cc_out>>

\* convert_annotation, line 134
ReturnTrue ==
    /\ pc = "objects"
    /\ k > Len(doc.objects)
    /\ Return(TRUE)
    /\ UNCHANGED <<classes, input_dir, output_dir, xml_files, total_files, result,
                   width, height, k, out0, evaluated, cc_in, cc_out>>

\* convert_all, line 163
ReturnAll ==
    /\ pc = "loop"
    /\ idx > Len(xml_files)
    /\ result' = [returned |-> TRUE, success |-> success_count, total |-> total_files]
    /\ pc' = "done"
    /\ UNCHANGED <<classes, input_dir, output_dir, xml_files, idx, total_files,
                   success_count, width, height, k, returns, out0, evaluated, cc_in, cc_out>>

Next ==
    \/ ConvertAll
    \/ ParseXml
    \/ ReadSize
    \/ ProcessObject
    \/ ReturnTrue
    \/ ReturnAll

Spec == Init /\ [][Next]_vars

SpecFile == InitFile /\ [][Next]_vars

(***************************************************************************)
(* convert_coordinates on its own                                          *)
(***************************************************************************)
InitCoord ==
    /\ pc = "coord"
    /\ input_dir = [n \in EntryNames |-> NoFile]
    /\ output_dir = [n \in OutNames |-> NoOut]
    /\ InitLocals
    /\ cc_in \in {<<<<w, h>>, <<a, b, c, d>>>> : w, h \in 0..MaxDim, a, b, c, d \in 0..MaxDim}
    /\ cc_out = [done |-> FALSE, raised |-> FALSE, bb |-> <<>>]

ApplyCoordinates ==
    /\ pc = "coord"
    /\ ~cc_out.done
    /\ cc_out' = IF CoordRaises(cc_in[1])
                 THEN [done |-> TRUE, raised |-> TRUE, bb |-> <<>>]
                 ELSE [done |-> TRUE, raised |-> FALSE,
                       bb |-> convert_coordinates(cc_in[1], cc_in[2])]
    /\ UNCHANGED <<classes, input_dir, output_dir, xml_files, idx, total_files,
                   success_count, result, pc, width, height, k, returns, out0,
                   evaluated, cc_in>>

NextCoord == ApplyCoordinates

SpecCoord == InitCoord /\ [][NextCoord]_vars

(***************************************************************************)
(* Properties                                                              *)
(***************************************************************************)
Returned == 1..Len(returns)
FileOf(i) == returns[i][1]
OkOf(i) == returns[i][2]
DocOf(i) == input_dir[FileOf(i)]
OutOf(i) == output_dir[OutputName(FileOf(i))]
PrevOf(i) == out0[OutputName(FileOf(i))]

\* the annotation files of the input directory
Annotations == {n \in XmlNames : input_dir[n].present}

Without(os, p) == SubSeq(os, 1, p - 1) \o SubSeq(os, p + 1, Len(os))

\* the call that returned i-th did what it does on the same file without object p
SameAsWithout(i, p) ==
    LET e == convert_annotation([DocOf(i) EXCEPT !.objects = Without(@, p)], PrevOf(i), classes)
    IN  OkOf(i) = e.ok /\ OutOf(i) = e.out

SizeRecordMissing(d) == d.wf /\ ~d.size.present

\* C1: the batch processes every matching file exactly once, whatever fails,
\* and returns (success_count, total_count) with total_count the number of
\* matching files and success_count the number of calls that returned true;
\* a file without size record counts as a failure, and every file's outcome
\* is the outcome of that file on its own.
C1_BatchTally ==
    pc = "done" =>
        /\ result.returned
        /\ result.total = Cardinality(Annotations)
        /\ Len(returns) = result.total
        /\ \A f \in Annotations : \E i \in Returned : FileOf(i) = f
        /\ result.success = Cardinality({i \in Returned : OkOf(i)})
        /\ \A i \in Returned :
               /\ SizeRecordMissing(DocOf(i)) => ~OkOf(i)
               /\ OkOf(i) = convert_annotation(DocOf(i), PrevOf(i), classes).ok

C1_Witness ==
    /\ pc = "done"
    /\ \E i, j \in Returned :
           /\ i < j
           /\ SizeRecordMissing(DocOf(i))
           /\ ~OkOf(i)
           /\ OkOf(j)
    /\ result.success = 1
    /\ result.total = 2

\* C2: after a batch, a file whose conversion succeeded has an output file,
\* and a file whose conversion failed has left the output directory as it
\* was: no new file, empty or partial, and no pre-existing file truncated.
C2_OutputIffSuccess ==
    pc = "done" =>
        \A i \in Returned :
            /\ OkOf(i) => OutOf(i).exists
            /\ ~OkOf(i) => OutOf(i) = PrevOf(i)

NotPositive(f) == f.kind \in {"missing", "empty"} \/ (f.kind = "num" /\ f.v <= 0)

\* C3: a file whose size record has a zero or missing width or height makes
\* convert_annotation return false whatever its objects are, and the
\* coordinate transform is never evaluated with a non-positive dimension.
C3_ZeroSizeFails ==
    /\ \A i \in Returned :
           (/\ DocOf(i).size.present
            /\ NotPositive(DocOf(i).size.width) \/ NotPositive(DocOf(i).size.height))
           => ~OkOf(i)
    /\ \A s \in evaluated : s[1] > 0 /\ s[2] > 0

\* the object gets as far as the reading of its corners
ReachesCorners(o) ==
    /\ DifficultError(o) = "none"
    /\ ~IsDifficult(o)
    /\ o.name.kind = "text"
    /\ InClasses(o.name.v, classes)
    /\ o.bndbox.present

BadCorner(o) ==
    \E c \in {o.bndbox.xmin, o.bndbox.xmax, o.bndbox.ymin, o.bndbox.ymax} : c.kind # "num"

\* C4: an object with a corner that is absent (no element, or an element
\* without text) or non-numeric is skipped on its own: the file's result and
\* lines are those of the file without that object.
C4_BadCornerSkipsObject ==
    \A i \in Returned : \A p \in 1..Len(DocOf(i).objects) :
        (ReachesCorners(DocOf(i).objects[p]) /\ BadCorner(DocOf(i).objects[p]))
        => SameAsWithout(i, p)

UnknownClass(o) == o.name.kind = "text" /\ ~InClasses(o.name.v, classes)

\* C5 as stated: an object whose class name is not in the class list never
\* produces a line and never fails the file; the file's result and lines are
\* those of the file without that object.
C5_UnknownClassIgnored ==
    \A i \in Returned : \A p \in 1..Len(DocOf(i).objects) :
        UnknownClass(DocOf(i).objects[p]) => SameAsWithout(i, p)

\* C5 amended: an object whose class name is not in the class list, and whose
\* difficulty flag is absent or an integer, never produces a line and never
\* fails the file; the file's result and lines are those of the file without
\* that object.
C5_UnknownClassIgnoredAmended ==
    \A i \in Returned : \A p \in 1..Len(DocOf(i).objects) :
        (UnknownClass(DocOf(i).objects[p]) /\ DifficultError(DocOf(i).objects[p]) = "none")
        => SameAsWithout(i, p)

C5_Witness ==
    \E i \in Returned :
        /\ OkOf(i)
        /\ Len(DocOf(i).objects) = 3
        /\ UnknownClass(DocOf(i).objects[2])
        /\ ~IsDifficult(DocOf(i).objects[2])
        /\ Len(OutOf(i).lines) = 2

\* C6: an object with difficult=1 never appears in the output file, at any
\* position among the objects: the file's result and lines are those of the
\* file without that object.
C6_DifficultNeverEmitted ==
    \A i \in Returned : \A p \in 1..Len(DocOf(i).objects) :
        IsDifficult(DocOf(i).objects[p]) => SameAsWithout(i, p)

C6_Witness ==
    \E i \in Returned :
        /\ OkOf(i)
        /\ Len(DocOf(i).objects) = 3
        /\ IsDifficult(DocOf(i).objects[2])
        /\ InClasses(DocOf(i).objects[2].name.v, classes)
        /\ DocOf(i).objects[2].bndbox.present
        /\ Len(OutOf(i).lines) = 2

Retained(o) ==
    /\ ~IsDifficult(o)
    /\ o.name.kind = "text"
    /\ InClasses(o.name.v, classes)
    /\ o.bndbox.present
    /\ ~BadCorner(o)

C8_OrderIndependent ==
    /\ \A f, g \in Annotations : f # g => OutputName(f) # OutputName(g)
    /\ pc = "done" =>
        /\ result = [returned |-> TRUE,
                     success |-> Cardinality({f \in Annotations :
                         convert_annotation(input_dir[f], out0[OutputName(f)], classes).ok}),
                     total |-> Cardinality(Annotations)]
        /\ output_dir =
               [n \in OutNames |->
                   IF \E f \in Annotations : OutputName(f) = n
                   THEN LET f == CHOOSE f \in Annotations : OutputName(f) = n
                        IN  convert_annotation(input_dir[f], out0[n], classes).out
                   ELSE out0[n]]

C8_Witness ==
    /\ pc = "done"
    /\ Len(xml_files) = 2
    /\ xml_files[1] = <<Stems[2]>> \o XmlExt
    /\ xml_files[2] = <<Stems[1]>> \o XmlExt
    /\ OkOf(1) # OkOf(2)
    /\ Len(OutOf(2).lines) = 2

InUnit(f) == f[2] > 0 /\ 0 <= f[1] /\ f[1] <= f[2]

\* C9: for an image size (w, h) with w, h positive and a box with
\* 0 <= xmin <= xmax <= w and 0 <= ymin <= ymax <= h, the four results of
\* convert_coordinates lie in [0, 1].
C9_UnitRange ==
    LET w == cc_in[1][1]
        h == cc_in[1][2]
        b == cc_in[2]
    IN  (/\ cc_out.done
         /\ w > 0 /\ h > 0
         /\ 0 <= b[1] /\ b[1] <= b[2] /\ b[2] <= w
         /\ 0 <= b[3] /\ b[3] <= b[4] /\ b[4] <= h)
        => /\ ~cc_out.raised
           /\ \A j \in 1..4 : InUnit(cc_out.bb[j])

C9_Witness ==
    /\ cc_out.done
    /\ cc_in = <<<<1, 3>>, <<0, 1, 1, 3>>>>
    /\ cc_out.bb = << <<1, 2>>, <<4, 6>>, <<1, 1>>, <<2, 3>> >>

\* C10: with no matching annotation file convert_all returns (0, 0) at once,
\* calls convert_annotation for no file and creates no output file.
C10_EmptyDirectory ==
    Annotations = {} =>
        /\ pc \in {"start", "done"}
        /\ returns = <<>>
        /\ output_dir = out0
        /\ pc = "done" => result = [returned |-> TRUE, success |-> 0, total |-> 0]

C10_Witness ==
    /\ Annotations = {}
    /\ pc = "done"
    /\ input_dir[OtherName].present
    /\ result = [returned |-> TRUE, success |-> 0, total |-> 0]

====
